---- MODULE Spec2Model ----
(***************************************************************************)
(* Proximal gradient descent (FISTA) of jaxopt/proximal_gradient.py.       *)
(*                                                                         *)
(* Numbers are binary floating-point values <<m, e>> standing for m * 2^e, *)
(* kept canonical (m odd, or <<0, 0>>) and rounded to Precision bits with   *)
(* round-to-nearest-even after every operation, as jax.numpy does for the  *)
(* default float32 dtype.  The exponent is not bounded: the inputs below   *)
(* stay far from float32's overflow and underflow thresholds.  Points are  *)
(* scalars (a pytree with a single leaf).                                  *)
(***************************************************************************)
EXTENDS Integers, Sequences, FiniteSets, TLC

\* ------------------------------------------------------------------------
\* float32 arithmetic
\* ------------------------------------------------------------------------

\* Significand bits of float32.
Precision == 24

\* Width of one limb when a product of two significands is formed.
HalfBits == 12

\* The element of a singleton.  Only({e(v) : v \in {d}}) is LET v == d IN
\* e(v) with d evaluated once, before e.
Only(S) == CHOOSE v \in S : TRUE

Pow2(n) == 2 ^ n

Abs(n) == IF n < 0 THEN 0 - n ELSE n

Sign(n) == IF n < 0 THEN 0 - 1 ELSE IF n > 0 THEN 1 ELSE 0

RECURSIVE BitLen(_)
BitLen(n) == IF n = 0 THEN 0 ELSE 1 + BitLen(n \div 2)

\* The canonical pair of m * 2^e.
RECURSIVE Canon(_, _)
Canon(m, e) ==
  IF m = 0 THEN <<0, 0>>
  ELSE IF m % 2 = 0 THEN Canon(m \div 2, e + 1)
  ELSE <<m, e>>

\* sgn * (q + r/(2*half)) * 2^e with q of at most Precision bits, rounded to
\* nearest, ties to even.
RoundParts(sgn, q, r, half, e) ==
  LET up == r > half \/ (r = half /\ half > 0 /\ q % 2 = 1)
  IN  Canon(sgn * (IF up THEN q + 1 ELSE q), e)

\* m * 2^e (|m| < 2^31) rounded to Precision bits.
Round(m, e) ==
  Only({ Only({ IF sh <= 0 THEN Canon(v, e)
                ELSE RoundParts(Sign(v), Abs(v) \div Pow2(sh),
                                Abs(v) % Pow2(sh), Pow2(sh - 1), e + sh) :
                sh \in {BitLen(Abs(v)) - Precision} }) :
         v \in {m} })

FNeg(a) == Only({ <<0 - v[1], v[2]>> : v \in {a} })

FAbs(a) == Only({ <<Abs(v[1]), v[2]>> : v \in {a} })

\* m * 2^e expressed in units of 2^E, low bits lost to the right jammed
\* into the last bit (sticky).
Align(m, e, E) ==
  IF e >= E THEN m * Pow2(e - E)
  ELSE LET sh == E - e
       IN  IF sh > 30 THEN Sign(m)
           ELSE LET q == Abs(m) \div Pow2(sh)
                    s == IF Abs(m) % Pow2(sh) = 0 THEN 0 ELSE 1
                IN  Sign(m) * (IF q % 2 = 1 THEN q ELSE q + s)

\* The exponent two non-zero operands are aligned to before they are added:
\* the smaller exponent, unless the sum would then exceed 30 bits.
AlignExp(a, b) ==
  LET ta  == a[2] + BitLen(Abs(a[1]))
      tb  == b[2] + BitLen(Abs(b[1]))
      top == IF ta >= tb THEN ta ELSE tb
      lo  == IF a[2] <= b[2] THEN a[2] ELSE b[2]
  IN  IF top - lo <= 29 THEN lo ELSE top - 29

FAdd(a, b) ==
  Only({ IF x[1] = 0 THEN y
         ELSE IF y[1] = 0 THEN x
         ELSE Only({ Round(Align(x[1], x[2], E) + Align(y[1], y[2], E), E) :
                     E \in {AlignExp(x, y)} }) :
         x \in {a}, y \in {b} })

FSub(a, b) == FAdd(a, FNeg(b))

\* x * y for significands too long for a single product: x * y is
\* hi * 2^(2*HalfBits) + lw, returned as <<hi, lw, BitLen(hi)>>.
LongProduct(x, y) ==
  LET B     == Pow2(HalfBits)
      xh    == x \div B
      xl    == x % B
      yh    == y \div B
      yl    == y % B
      cross == xh * yl + xl * yh
      low   == (cross % B) * B + xl * yl
      hi    == xh * yh + cross \div B + low \div (B * B)
  IN  <<hi, low % (B * B), BitLen(hi)>>

\* The rounded product sg * x * y * 2^e of two significands x, y >= 0.
MulParts(sg, x, y, e) ==
  IF BitLen(x) + BitLen(y) <= 30 THEN Round(sg * x * y, e)
  ELSE Only({ RoundParts(sg,
                         p[1] * Pow2(2 * HalfBits - p[3]) + p[2] \div Pow2(p[3]),
                         p[2] % Pow2(p[3]), Pow2(p[3] - 1),
                         e + p[3]) :
              p \in {LongProduct(x, y)} })

FMul(a, b) ==
  Only({ MulParts(Sign(x[1]) * Sign(y[1]), Abs(x[1]), Abs(y[1]), x[2] + y[2]) :
         x \in {a}, y \in {b} })

\* k further quotient bits of r / d after the integer quotient q.
RECURSIVE DivBits(_, _, _, _)
DivBits(q, r, d, k) ==
  IF k = 0 THEN <<q, r>>
  ELSE IF 2 * r >= d THEN DivBits(2 * q + 1, 2 * r - d, d, k - 1)
  ELSE DivBits(2 * q, 2 * r, d, k - 1)

FDiv(a, b) ==
  Only({ IF x[1] = 0 THEN <<0, 0>>
         ELSE Only({ Only({ Round(Sign(x[1]) * Sign(y[1])
                                   * (2 * qr[1] + (IF qr[2] = 0 THEN 0 ELSE 1)),
                                  x[2] - y[2] - k - 1) :
                            qr \in {DivBits(Abs(x[1]) \div Abs(y[1]),
                                            Abs(x[1]) % Abs(y[1]),
                                            Abs(y[1]), k)} }) :
                     k \in {Precision + 2 + BitLen(Abs(y[1]))
                              - BitLen(Abs(x[1]))} }) :
         x \in {a}, y \in {b} })

RECURSIVE ISqrt(_)
ISqrt(n) ==
  IF n < 4 THEN (IF n = 0 THEN 0 ELSE 1)
  ELSE Only({ IF (r + 1) * (r + 1) <= n THEN r + 1 ELSE r :
              r \in {2 * ISqrt(n \div 4)} })

\* j further root bits: each step appends a pair of zero bits to the radicand.
RECURSIVE SqrtBits(_, _, _)
SqrtBits(root, rem, j) ==
  IF j = 0 THEN <<root, rem>>
  ELSE IF 4 * rem >= 4 * root + 1
       THEN SqrtBits(2 * root + 1, 4 * rem - (4 * root + 1), j - 1)
       ELSE SqrtBits(2 * root, 4 * rem, j - 1)

\* The square root of m2 * 2^e2, e2 even.
SqrtEven(m2, e2) ==
  Only({ Only({ Only({ Round(2 * rr[1] + (IF rr[2] = 0 THEN 0 ELSE 1),
                             (e2 \div 2) - j - 1) :
                       rr \in {SqrtBits(r0, m2 - r0 * r0, j)} }) :
                j \in {Precision + 2 - BitLen(r0)} }) :
         r0 \in {ISqrt(m2)} })

FSqrt(a) ==
  Only({ IF x[1] = 0 THEN <<0, 0>>
         ELSE IF x[2] % 2 = 1 THEN SqrtEven(2 * x[1], x[2] - 1)
         ELSE SqrtEven(x[1], x[2]) :
         x \in {a} })

FLt(a, b) == FSub(a, b)[1] < 0

FLe(a, b) == FSub(a, b)[1] <= 0

FGt(a, b) == FLt(b, a)

\* ------------------------------------------------------------------------
\* Literals of the source
\* ------------------------------------------------------------------------

Zero == <<0, 0>>

One == <<1, 0>>

Half == <<1, -1>>

Four == <<1, 2>>

\* jnp.inf: float32 encodes it with the exponent just above the finite range.
Inf == <<1, 128>>

\* jnp.finfo(float32).eps = 2^-23
Eps == <<1, -23>>

\* 1e-6 as float32
StepFloor == <<8796093, -43>>

\* Default shrink factor of the line search; _proximal_gradient never
\* overrides it.
stepfactor == Half

\* Defaults of make_solver_fun.
DefaultMaxIter == 500

DefaultMaxLs == 15

DefaultTol == StepFloor

\* ------------------------------------------------------------------------
\* Bounds of the explored inputs
\* ------------------------------------------------------------------------

\* Largest iteration cap of the small configurations.
MaxIterSmall == 3

\* Smallest line-search cap explored (besides the default).
MaxLsSmall == 1

\* ------------------------------------------------------------------------
\* State
\* ------------------------------------------------------------------------

VARIABLES
  cfg,      \* arguments of make_solver_fun / solver_fun, fixed per call
  args,     \* the loop state tuple of _proximal_gradient
  pc,       \* "loop" while in loop.while_loop, "done" after the return
  res,      \* the value returned by _proximal_gradient
  ls_call   \* arguments and result of the line search of the last iteration

vars == <<cfg, args, pc, res, ls_call>>

\* ------------------------------------------------------------------------
\* User-supplied callables: fun(x, params_fun) and prox(v, params_prox, s)
\* ------------------------------------------------------------------------

\* fun(x, params_fun) = 0.5 * a * (x - c)^2 with params_fun = [a, c]
fun(x, params_fun) ==
  Only({ FMul(FMul(Half, params_fun.a), FMul(d, d)) :
         d \in {FSub(x, params_fun.c)} })

\* jax.grad(fun)
grad_fun(x, params_fun) == FMul(params_fun.a, FSub(x, params_fun.c))

\* jax.value_and_grad(fun)
value_and_grad_fun(x, params_fun) ==
  <<fun(x, params_fun), grad_fun(x, params_fun)>>

\* prox_none: the identity; prox_lasso: soft thresholding by
\* params_prox * scaling.
prox(v, params_prox, scaling) ==
  IF cfg.prox = "prox_none" THEN v
  ELSE Only({ IF mag[1] <= 0 THEN Zero
              ELSE IF v[1] < 0 THEN FNeg(mag) ELSE mag :
              mag \in {FSub(FAbs(v), FMul(params_prox, scaling))} })

\* The regulariser whose proximity operator prox is.
g(x, params_prox) ==
  IF cfg.prox = "prox_none" THEN Zero ELSE FMul(params_prox, FAbs(x))

\* ------------------------------------------------------------------------
\* jaxopt.tree_util on a single-leaf pytree
\* ------------------------------------------------------------------------

tree_add_scalar_mul(tree_x, scalar, tree_y) == FAdd(tree_x, FMul(scalar, tree_y))

tree_sub(tree_x, tree_y) == FSub(tree_x, tree_y)

tree_vdot(tree_x, tree_y) == FMul(tree_x, tree_y)

tree_l2_norm(tree_x, squared) ==
  Only({ IF squared THEN sqnorm ELSE FSqrt(sqnorm) :
         sqnorm \in {FMul(tree_x, tree_x)} })

\* ------------------------------------------------------------------------
\* _make_prox_grad
\* ------------------------------------------------------------------------

\* Faulty variant: a step up the gradient.
prox_grad_ascent(curr_x, curr_x_fun_grad, curr_stepsize) ==
  Only({ prox(update, cfg.params_prox, curr_stepsize) :
         update \in {tree_add_scalar_mul(curr_x, curr_stepsize,
                                         curr_x_fun_grad)} })

\* Faulty variant: the prox is not scaled by the step size.
prox_grad_unscaled(curr_x, curr_x_fun_grad, curr_stepsize) ==
  Only({ prox(update, cfg.params_prox, One) :
         update \in {tree_add_scalar_mul(curr_x, FNeg(curr_stepsize),
                                         curr_x_fun_grad)} })

prox_grad(curr_x, curr_x_fun_grad, curr_stepsize) ==
  Only({ prox(update, cfg.params_prox, curr_stepsize) :
         update \in {tree_add_scalar_mul(curr_x, FNeg(curr_stepsize),
                                         curr_x_fun_grad)} })

\* ------------------------------------------------------------------------
\* _make_linesearch
\* ------------------------------------------------------------------------

\* Faulty variant: the comparison of the sufficient-decrease test reversed.
ls_cond_fun_reversed(curr_x, curr_x_fun_val, curr_x_fun_grad, val) ==
  Only({ LET sqdist       == tree_l2_norm(diff_x, TRUE)
             fun_decrease == FMul(val[2],
                                  FSub(fun(val[1], cfg.params_fun),
                                       curr_x_fun_val))
             condition    == FAdd(FMul(val[2],
                                       tree_vdot(diff_x, curr_x_fun_grad)),
                                  FMul(Half, sqdist))
         IN  FLt(fun_decrease, FAdd(condition, Eps)) :
         diff_x \in {tree_sub(val[1], curr_x)} })

\* cond_fun of linesearch, val = <<next_x, stepsize>>: TRUE while sufficient
\* decrease is violated.
ls_cond_fun(curr_x, curr_x_fun_val, curr_x_fun_grad, val) ==
  Only({ LET sqdist       == tree_l2_norm(diff_x, TRUE)
             fun_decrease == FMul(val[2],
                                  FSub(fun(val[1], cfg.params_fun),
                                       curr_x_fun_val))
             condition    == FAdd(FMul(val[2],
                                       tree_vdot(diff_x, curr_x_fun_grad)),
                                  FMul(Half, sqdist))
         IN  FGt(fun_decrease, FAdd(condition, Eps)) :
         diff_x \in {tree_sub(val[1], curr_x)} })

\* Faulty variant: the candidate is not recomputed for the shrunk step size.
ls_body_fun_stale(curr_x, curr_x_fun_grad, val) ==
  <<val[1], FMul(val[2], stepfactor)>>

\* Faulty variant: the step size is reduced by stepfactor, not multiplied.
ls_body_fun_subtract(curr_x, curr_x_fun_grad, val) ==
  Only({ <<prox_grad(curr_x, curr_x_fun_grad, next_stepsize), next_stepsize>> :
         next_stepsize \in {FSub(val[2], stepfactor)} })

\* body_fun of linesearch
ls_body_fun(curr_x, curr_x_fun_grad, val) ==
  Only({ <<prox_grad(curr_x, curr_x_fun_grad, next_stepsize), next_stepsize>> :
         next_stepsize \in {FMul(val[2], stepfactor)} })

\* loop.while_loop(cond_fun, body_fun, init_val, maxiter=maxls): n counts the
\* iterations made so far.
RECURSIVE ls_while_loop(_, _, _, _, _)
ls_while_loop(curr_x, curr_x_fun_val, curr_x_fun_grad, val, n) ==
  IF n < cfg.maxls /\ ls_cond_fun(curr_x, curr_x_fun_val, curr_x_fun_grad, val)
  THEN Only({ ls_while_loop(curr_x, curr_x_fun_val, curr_x_fun_grad, v, n + 1) :
              v \in {ls_body_fun(curr_x, curr_x_fun_grad, val)} })
  ELSE val

linesearch(curr_x, curr_x_fun_val, curr_x_fun_grad, curr_stepsize) ==
  Only({ ls_while_loop(curr_x, curr_x_fun_val, curr_x_fun_grad, init_val, 0) :
         init_val \in {<<prox_grad(curr_x, curr_x_fun_grad, curr_stepsize),
                         curr_stepsize>>} })

\* ------------------------------------------------------------------------
\* _make_pg_body_fun
\* ------------------------------------------------------------------------

error_fun(curr_x, curr_x_fun_grad) ==
  tree_l2_norm(tree_sub(prox_grad(curr_x, curr_x_fun_grad, One), curr_x),
               FALSE)

\* Faulty variant: the accepted step size is kept, never increased.
restart_or_grow_kept(next_stepsize) ==
  IF FLe(next_stepsize, StepFloor) THEN One ELSE next_stepsize

\* jnp.where(next_stepsize <= 1e-6, 1.0, next_stepsize / stepfactor)
restart_or_grow(next_stepsize) ==
  IF FLe(next_stepsize, StepFloor) THEN One ELSE FDiv(next_stepsize, stepfactor)

\* Faulty variant: without line search the step is taken at the step size of
\* the solver state instead of the configured one.
iter_at_state_stepsize(curr_x, curr_x_fun_val, curr_x_fun_grad, curr_stepsize) ==
  IF cfg.stepsize[1] <= 0
  THEN Only({ <<ls[1], restart_or_grow(ls[2])>> :
              ls \in {linesearch(curr_x, curr_x_fun_val, curr_x_fun_grad,
                                 curr_stepsize)} })
  ELSE <<prox_grad(curr_x, curr_x_fun_grad, curr_stepsize), curr_stepsize>>

iter(curr_x, curr_x_fun_val, curr_x_fun_grad, curr_stepsize) ==
  IF cfg.stepsize[1] <= 0
  THEN Only({ <<ls[1], restart_or_grow(ls[2])>> :
              ls \in {linesearch(curr_x, curr_x_fun_val, curr_x_fun_grad,
                                 curr_stepsize)} })
  ELSE <<prox_grad(curr_x, curr_x_fun_grad, cfg.stepsize), cfg.stepsize>>

body_fun_proximal_gradient(a) ==
  Only({ Only({ [iter_num |-> a.iter_num + 1, x |-> nxt[1],
                 stepsize |-> nxt[2], error |-> error_fun(a.x, vg[2])] :
                nxt \in {iter(a.x, vg[1], vg[2], a.stepsize)} }) :
         vg \in {value_and_grad_fun(a.x, cfg.params_fun)} })

next_t_of(curr_t) ==
  FMul(Half, FAdd(One, FSqrt(FAdd(One, FMul(Four, FMul(curr_t, curr_t))))))

\* next_y = next_x + ((curr_t - 1) / next_t) * (next_x - curr_x)
next_y_of(curr_x, next_x, curr_t, next_t) ==
  tree_add_scalar_mul(next_x, FDiv(FSub(curr_t, One), next_t),
                      tree_sub(next_x, curr_x))

body_fun_accelerated_proximal_gradient(a) ==
  Only({ Only({ Only({ [iter_num |-> a.iter_num + 1, x |-> nxt[1],
                        y |-> next_y_of(a.x, nxt[1], a.t, next_t),
                        t |-> next_t, stepsize |-> nxt[2],
                        error |-> error_fun(nxt[1],
                                            grad_fun(nxt[1], cfg.params_fun))] :
                       next_t \in {next_t_of(a.t)} }) :
                nxt \in {iter(a.y, vg[1], vg[2], a.stepsize)} }) :
         vg \in {value_and_grad_fun(a.y, cfg.params_fun)} })

body_fun(a) ==
  IF cfg.acceleration THEN body_fun_accelerated_proximal_gradient(a)
  ELSE body_fun_proximal_gradient(a)

\* ------------------------------------------------------------------------
\* _proximal_gradient
\* ------------------------------------------------------------------------

\* Faulty variant: the loop goes on while the error is below the tolerance.
cond_fun_reversed(a) == FLt(a.error, cfg.tol)

cond_fun(a) == FGt(a.error, cfg.tol)

\* Faulty variant: the momentum sequence seeded with t = 0.
init_args_t_zero(acceleration, init) ==
  IF acceleration
  THEN [iter_num |-> 0, x |-> init, y |-> init, t |-> Zero, stepsize |-> One,
        error |-> Inf]
  ELSE [iter_num |-> 0, x |-> init, stepsize |-> One, error |-> Inf]

init_args(acceleration, init) ==
  IF acceleration
  THEN [iter_num |-> 0, x |-> init, y |-> init, t |-> One, stepsize |-> One,
        error |-> Inf]
  ELSE [iter_num |-> 0, x |-> init, stepsize |-> One, error |-> Inf]

\* loop.while_loop(cond_fun, body_fun, init_val, maxiter): the loop goes on
\* while fewer than maxiter iterations were made and cond_fun holds.
loop_continues(a) == a.iter_num < cfg.maxiter /\ cond_fun(a)

result(a) ==
  IF cfg.ret_info THEN [x |-> a.x, nit |-> a.iter_num, error |-> a.error]
  ELSE a.x

\* The point the last iteration evaluated fun at, and what the line search
\* was called with and returned.
NoCall == [called |-> FALSE]

eval_point(a) == IF cfg.acceleration THEN a.y ELSE a.x

ls_record(a) ==
  IF cfg.stepsize[1] <= 0
  THEN Only({ Only({ [called |-> TRUE, curr_x |-> eval_point(a),
                      fun_val |-> vg[1], fun_grad |-> vg[2],
                      stepsize0 |-> a.stepsize,
                      next_x |-> ls[1], stepsize |-> ls[2]] :
                     ls \in {linesearch(eval_point(a), vg[1], vg[2],
                                        a.stepsize)} }) :
              vg \in {value_and_grad_fun(eval_point(a), cfg.params_fun)} })
  ELSE NoCall

\* ------------------------------------------------------------------------
\* Configurations explored
\* ------------------------------------------------------------------------

Quarter == <<1, -2>>

Three == <<3, 0>>

\* 2^24: curvature for which the line search runs into its cap and the
\* accepted step size falls below 1e-6.
Steep == <<1, 24>>

\* 3.125
InitNearOptimum == <<25, -3>>

\* 0.1875
TolCoarse == <<3, -4>>

SmallConfigs ==
  { [params_fun |-> [a |-> a, c |-> Three], prox |-> p, params_prox |-> One,
     init |-> i, stepsize |-> s, maxiter |-> mi, maxls |-> ml, tol |-> tl,
     acceleration |-> acc, ret_info |-> ri] :
      a \in {Quarter, One, Four}, p \in {"prox_none", "prox_lasso"},
      i \in {Zero, InitNearOptimum}, s \in {Zero, Quarter, Half, Three},
      mi \in {0, MaxIterSmall}, ml \in {MaxLsSmall, DefaultMaxLs},
      tl \in {DefaultTol, TolCoarse}, acc \in BOOLEAN, ri \in BOOLEAN }

SteepConfigs ==
  { [params_fun |-> [a |-> Steep, c |-> Three], prox |-> p, params_prox |-> One,
     init |-> i, stepsize |-> Zero, maxiter |-> MaxIterSmall,
     maxls |-> DefaultMaxLs, tol |-> DefaultTol,
     acceleration |-> acc, ret_info |-> TRUE] :
      p \in {"prox_none", "prox_lasso"}, i \in {Zero, InitNearOptimum},
      acc \in BOOLEAN }

\* The scenarios of the documentation, with the defaults of make_solver_fun.
DefaultConfigs ==
  { [params_fun |-> [a |-> One, c |-> Three], prox |-> p, params_prox |-> One,
     init |-> Zero, stepsize |-> s, maxiter |-> DefaultMaxIter,
     maxls |-> DefaultMaxLs, tol |-> DefaultTol,
     acceleration |-> acc, ret_info |-> TRUE] :
      p \in {"prox_none", "prox_lasso"}, s \in {Zero, Half},
      acc \in BOOLEAN }

Configs == SmallConfigs \cup SteepConfigs \cup DefaultConfigs

\* ------------------------------------------------------------------------
\* Actions
\* ------------------------------------------------------------------------

Init ==
  /\ cfg \in Configs
  /\ args = init_args(cfg.acceleration, cfg.init)
  /\ pc = "loop"
  /\ res = <<>>
  /\ ls_call = NoCall

\* One iteration of loop.while_loop in _proximal_gradient.
Iterate ==
  /\ pc = "loop"
  /\ loop_continues(args)
  /\ args' = body_fun(args)
  /\ ls_call' = ls_record(args)
  /\ UNCHANGED <<cfg, pc, res>>

\* The loop ends and _proximal_gradient returns.
Return ==
  /\ pc = "loop"
  /\ ~loop_continues(args)
  /\ pc' = "done"
  /\ res' = result(args)
  /\ UNCHANGED <<cfg, args, ls_call>>

Next == Iterate \/ Return

Spec == Init /\ [][Next]_vars

\* The solver is a single sequential computation: it always takes its next
\* step.
FairSpec == Spec /\ WF_vars(Next)

\* ------------------------------------------------------------------------
\* Well-formedness: every number of the state is finite and normal in
\* float32, so no operation above overflowed or underflowed.
\* ------------------------------------------------------------------------

Finite(a) ==
  a[1] = 0 \/ (BitLen(Abs(a[1])) <= Precision
               /\ a[2] + BitLen(Abs(a[1])) <= 127
               /\ a[2] + BitLen(Abs(a[1])) >= 0 - 125)

InRange ==
  /\ Finite(args.x) /\ Finite(args.stepsize)
  /\ args.iter_num > 0 => Finite(args.error)
  /\ cfg.acceleration => Finite(args.y) /\ Finite(args.t)
  /\ ls_call.called => /\ Finite(ls_call.fun_val) /\ Finite(ls_call.fun_grad)
                       /\ Finite(ls_call.next_x) /\ Finite(ls_call.stepsize)
\* ------------------------------------------------------------------------
\* Notions the properties below are stated with
\* ------------------------------------------------------------------------

\* ||x - prox(x - grad f(x), params_prox, 1.0)||_2
residual(x) == error_fun(x, grad_fun(x, cfg.params_fun))

\* f(x) + g(x)
objective(x) == FAdd(fun(x, cfg.params_fun), g(x, cfg.params_prox))

\* step * stepfactor^k
RECURSIVE shrunk(_, _)
shrunk(step, k) == IF k = 0 THEN step ELSE FMul(shrunk(step, k - 1), stepfactor)

\* s * (f(nx) - fx) <= s * <gx, nx - x> + 0.5 * ||nx - x||^2 + eps
sufficient_decrease(x, fx, gx, nx, s) ==
  LET d == FSub(nx, x)
  IN  FLe(FMul(s, FSub(fun(nx, cfg.params_fun), fx)),
          FAdd(FAdd(FMul(s, FMul(d, gx)), FMul(Half, FMul(d, d))), Eps))

\* The k-th candidate of the last line search and whether it is acceptable.
candidate(k) ==
  prox_grad(ls_call.curr_x, ls_call.fun_grad, shrunk(ls_call.stepsize0, k))

acceptable(k) ==
  sufficient_decrease(ls_call.curr_x, ls_call.fun_val, ls_call.fun_grad,
                      candidate(k), shrunk(ls_call.stepsize0, k))

returned_acceptable ==
  sufficient_decrease(ls_call.curr_x, ls_call.fun_val, ls_call.fun_grad,
                      ls_call.next_x, ls_call.stepsize)

line_search_mode == cfg.stepsize[1] <= 0

\* The step from args to args' is one outer iteration.
iteration_step == args'.iter_num = args.iter_num + 1

\* ------------------------------------------------------------------------
\* Properties
\* ------------------------------------------------------------------------

C2_AcceptedOrExhausted ==
  ls_call.called =>
    \/ returned_acceptable
    \/ ls_call.stepsize = shrunk(ls_call.stepsize0, cfg.maxls)

C2_Witness ==
  /\ ls_call.called /\ returned_acceptable
  /\ ls_call.stepsize # ls_call.stepsize0
  /\ ls_call.stepsize # shrunk(ls_call.stepsize0, cfg.maxls)

\* C3: when the solver returns with iter_num < maxiter, the returned x
\* satisfies residual(x) <= tol and the reported error is residual(x).
C3_CriterionAtReturnedPoint ==
  (pc = "done" /\ args.iter_num < cfg.maxiter) =>
    /\ FLe(residual(args.x), cfg.tol)
    /\ args.error = residual(args.x)

\* C4: the step size of the solver state is strictly positive, and so is
\* every trial step size of the line search.
C4_StepSizePositive ==
  /\ args.stepsize[1] > 0
  /\ ls_call.called =>
       /\ ls_call.stepsize0[1] > 0 /\ ls_call.stepsize[1] > 0
       /\ \A k \in 0..cfg.maxls :
            FLe(ls_call.stepsize, shrunk(ls_call.stepsize0, k))
              => shrunk(ls_call.stepsize0, k)[1] > 0

C4_Witness ==
  /\ ls_call.called
  /\ ls_call.stepsize = shrunk(ls_call.stepsize0, DefaultMaxLs)
  /\ args.stepsize[1] > 0

\* C5 as stated: with a fixed positive stepsize every outer iteration leaves
\* the step size of the solver state unchanged.
C5_StepSizeUnchanged ==
  [][(cfg.stepsize[1] > 0 /\ iteration_step)
       => args'.stepsize = args.stepsize]_vars

\* C5 as amended: with a fixed positive stepsize every outer iteration takes
\* its prox-gradient step at the configured stepsize and leaves the
\* configured stepsize in the solver state; the state's step size is
\* unchanged by every iteration but the first, which replaces the initial 1.0.
C5_StepSizeIsConfigured ==
  [][(cfg.stepsize[1] > 0 /\ iteration_step) =>
       /\ args'.stepsize = cfg.stepsize
       /\ args'.x = prox_grad(eval_point(args),
                              grad_fun(eval_point(args), cfg.params_fun),
                              cfg.stepsize)
       /\ args.iter_num >= 1 => args'.stepsize = args.stepsize]_vars

C5_Witness ==
  /\ cfg.stepsize[1] > 0 /\ cfg.stepsize # One
  /\ args.iter_num >= 2 /\ args.stepsize = cfg.stepsize

\* C6: without acceleration, with a fixed stepsize <= 1/L (L = a, the
\* curvature of fun), no outer iteration increases f + g.
C6_MonotoneObjective ==
  [][(/\ ~cfg.acceleration
      /\ cfg.stepsize[1] > 0
      /\ FLe(FMul(cfg.stepsize, cfg.params_fun.a), One)
      /\ iteration_step)
       => FLe(objective(args'.x), objective(args.x))]_vars

C6_Witness ==
  /\ ~cfg.acceleration /\ cfg.stepsize = Half /\ cfg.params_fun.a = One
  /\ cfg.prox = "prox_lasso" /\ args.iter_num >= 2
  /\ FLt(objective(args.x), objective(cfg.init))

\* C7: f(x) = 0.5*(x-3)^2, soft-threshold prox with lambda = 1, init = 0,
\* stepsize = 0.5, no acceleration, tol = 1e-6, maxiter = 500: the solver
\* stops before the cap with error <= tol and x within 1e-6 of 2.
Scenario ==
  /\ cfg.params_fun = [a |-> One, c |-> Three]
  /\ cfg.prox = "prox_lasso" /\ cfg.params_prox = One
  /\ cfg.init = Zero /\ cfg.stepsize = Half /\ ~cfg.acceleration
  /\ cfg.tol = DefaultTol /\ cfg.maxiter = DefaultMaxIter

C7_ScenarioConverges ==
  (Scenario /\ pc = "done") =>
    /\ args.iter_num < cfg.maxiter
    /\ FLe(args.error, cfg.tol)
    /\ FLe(FAbs(FSub(res.x, <<1, 1>>)), DefaultTol)

C7_Witness ==
  Scenario /\ pc = "done" /\ res.nit = 22 /\ res.x = <<4194303, -21>>

\* C8: the line search returns the candidate of the least k <= maxls that
\* satisfies sufficient decrease, and the candidate of k = maxls, acceptable
\* or not, when none of the candidates 0..maxls-1 does.
C8_LeastAcceptable ==
  ls_call.called =>
    \E k \in 0..cfg.maxls :
      /\ ls_call.stepsize = shrunk(ls_call.stepsize0, k)
      /\ ls_call.next_x = candidate(k)
      /\ \A j \in 0..(k - 1) : ~acceptable(j)
      /\ k < cfg.maxls => acceptable(k)

C8_Witness ==
  /\ ls_call.called
  /\ ls_call.stepsize = shrunk(ls_call.stepsize0, cfg.maxls)
  /\ ~returned_acceptable

\* C9: in line-search mode the stored step size is 1.0 when the accepted
\* step size is <= 1e-6 and accepted / stepfactor otherwise; so it is 1.0 or
\* greater than 1e-6 / stepfactor, and it doubles whenever the first trial is
\* accepted.
C9_RestartOrGrow ==
  line_search_mode =>
    /\ args.stepsize = One \/ FGt(args.stepsize, FDiv(StepFloor, stepfactor))
    /\ ls_call.called =>
         /\ args.stepsize = IF FLe(ls_call.stepsize, StepFloor) THEN One
                            ELSE FDiv(ls_call.stepsize, stepfactor)
         /\ (ls_call.stepsize = ls_call.stepsize0
               /\ FGt(ls_call.stepsize0, StepFloor))
              => args.stepsize = FMul(<<1, 1>>, ls_call.stepsize0)

C9_Witness ==
  /\ line_search_mode /\ ls_call.called
  /\ FLe(ls_call.stepsize, StepFloor) /\ args.stepsize = One

\* C10: after the first accelerated iteration y = x, and x and the step size
\* are those the non-accelerated body produces from the same init.
C10_FirstIterationAgrees ==
  (cfg.acceleration /\ args.iter_num = 1) =>
    LET plain == body_fun_proximal_gradient(init_args(FALSE, cfg.init))
    IN  /\ args.y = args.x
        /\ args.x = plain.x
        /\ args.stepsize = plain.stepsize

C10_Witness ==
  /\ cfg.acceleration /\ args.iter_num = 1
  /\ args.x # cfg.init /\ args.y = args.x /\ line_search_mode

====
